---- MODULE Spec2Model ----
(***************************************************************************)
(* Model of inja's FunctionStorage (include/inja/function_storage.hpp):    *)
(* the CallbackContainer tagged union and the (name, num_args) keyed       *)
(* registry of builtin opcodes and user callbacks.                         *)
(***************************************************************************)
EXTENDS Integers, Sequences, FiniteSets, TLC

(* ------------------------------ bounds --------------------------------- *)
\* number of add_* calls enumerated in one behaviour
MaxCalls == 3
\* number of add_* calls of the setup phase of the serving specification
MaxSetup == 2
\* number of add_* calls executed step by step in one behaviour
MaxStepCalls == 2
\* nesting of operator= calls followed within one assignment
MaxDepth == 2

Names == {"upper", "join"}
\* the num_args values enumerated (unsigned int, only compared for equality)
Arities == {1, 2}
Keys == Names \X Arities
\* the keys add_* calls are enumerated for; lookups are enumerated for all Keys
RegKeys == {<<"upper", 1>>, <<"upper", 2>>, <<"join", 2>>}
\* Bytecode::Op values: Nop is the sentinel, the others stand for the builtins
Ops == {"Nop", "Upper", "Lower"}
\* targets of the std::function objects handed to add_callback
ValueFns == {"v1", "v2"}
StreamingFns == {"s1"}
\* the threads issuing lookups in the serving specification
Threads == {1, 2}

\* no target: an Empty container has no payload
NoTarget == "none"
\* what a read of a union member that is not live yields
Garbage == "garbage"

(* -------------------------- CallbackContainer -------------------------- *)
\* A container is [type, live, target]: type is the tag, live names the
\* union member whose lifetime has begun and not ended ("none" when neither
\* has), target is the callable the live std::function holds.

\* CallbackContainer() : type(Type::_) {}
Container_default == [type |-> "_", live |-> "none", target |-> NoTarget]

\* a value constructor that sets the streaming tag
Container_value_streamingtag(f) ==
  [type |-> "STREAMING", live |-> "value", target |-> f]

\* CallbackContainer(const ValueCallbackFunction&)
Container_value(f) == [type |-> "VALUE", live |-> "value", target |-> f]

\* CallbackContainer(const StreamingCallbackFunction&)
Container_streaming(f) == [type |-> "STREAMING", live |-> "streaming", target |-> f]

\* other.callback.value as read by a constructor or an assignment
ReadValue(other) == IF other.live = "value" THEN other.target ELSE Garbage

\* other.callback.streaming as read by a constructor or an assignment
ReadStreaming(other) == IF other.live = "streaming" THEN other.target ELSE Garbage

\* CallbackContainer(const CallbackContainer& other)
CopyConstruct(other) ==
  CASE other.type = "VALUE" ->
         [type |-> "VALUE", live |-> "value", target |-> ReadValue(other)]
    [] other.type = "STREAMING" ->
         [type |-> "STREAMING", live |-> "streaming", target |-> ReadStreaming(other)]
    [] other.type = "_" ->
         [type |-> "_", live |-> "none", target |-> NoTarget]

\* a move constructor that takes the tag but transfers no payload
MoveConstruct_nopayload(other) ==
  [type |-> other.type, live |-> "none", target |-> NoTarget]

\* CallbackContainer(CallbackContainer&& other) noexcept: the destination
MoveConstruct(other) ==
  CASE other.type = "VALUE" ->
         [type |-> "VALUE", live |-> "value", target |-> ReadValue(other)]
    [] other.type = "STREAMING" ->
         [type |-> "STREAMING", live |-> "streaming", target |-> ReadStreaming(other)]
    [] other.type = "_" ->
         [type |-> "_", live |-> "none", target |-> NoTarget]

\* what the target of a moved-from std::function is: valid but unspecified
MovedFrom == "moved-from"

\* CallbackContainer(CallbackContainer&& other) noexcept: the states the
\* source can be in afterwards. Its tag is not written; the member the tag
\* names was moved from and holds either nothing or still its target.
MoveConstruct_source(other) ==
  IF other.type = "_" THEN {other}
  ELSE {[type |-> other.type, live |-> other.live, target |-> t] :
          t \in {other.target, MovedFrom}}

\* a move assignment that keeps the old tag
MoveAssign_keeptag(this, other) ==
  CASE other.type = "VALUE" ->
         [type |-> this.type, live |-> "value", target |-> ReadValue(other)]
    [] other.type = "STREAMING" ->
         [type |-> this.type, live |-> "streaming", target |-> ReadStreaming(other)]
    [] other.type = "_" -> this

\* operator=(const CallbackContainer&& other) noexcept: the tag is taken from
\* other, then the matching member is constructed in place over whatever the
\* slot held (placement new ends the lifetime of the old member without
\* running its destructor); for an Empty other the slot is not touched.
MoveAssign(this, other) ==
  CASE other.type = "VALUE" ->
         [type |-> "VALUE", live |-> "value", target |-> ReadValue(other)]
    [] other.type = "STREAMING" ->
         [type |-> "STREAMING", live |-> "streaming", target |-> ReadStreaming(other)]
    [] other.type = "_" ->
         [type |-> "_", live |-> this.live, target |-> this.target]

\* operator=(const CallbackContainer& other): *this = CallbackContainer(other)
CopyAssign(this, other) == MoveAssign(this, CopyConstruct(other))

\* ~CallbackContainer(): the member destroyed, chosen by the tag
Destroyed(c) ==
  CASE c.type = "VALUE" -> "value"
    [] c.type = "STREAMING" -> "streaming"
    [] c.type = "_" -> "none"

\* the destructor of c leaves a live payload behind
Abandoned(c) == c.live # "none" /\ Destroyed(c) # c.live

\* operator=(const CallbackContainer&&): number of payloads whose storage the
\* placement new reuses while they are live (none is destroyed first)
AssignLost(this, other) ==
  IF other.type # "_" /\ this.live # "none" THEN 1 ELSE 0

\* operator bool()
IsSet(c) == c.type # "_"

(* --------------------------- FunctionStorage --------------------------- *)
\* a new entry that starts with some builtin
FunctionData_upper ==
  [num_args |-> 0, op |-> "Upper", function |-> Container_default]

\* FunctionData() : function() {}  with num_args {0}, op {Op::Nop}
FunctionData ==
  [num_args |-> 0, op |-> "Nop", function |-> Container_default]

\* the implicit move constructor of FunctionData, used when the vector grows
FunctionData_move(d) ==
  [num_args |-> d.num_args, op |-> d.op, function |-> MoveConstruct(d.function)]

\* the elements of a vector after its storage was reallocated
Relocate(vec) == [i \in 1..Len(vec) |-> FunctionData_move(vec[i])]

\* a loop that returns after looking at one entry
FirstMatch_firstonly(vec, i, num_args) ==
  IF i > Len(vec) THEN 0
  ELSE IF vec[i].num_args = num_args THEN i
  ELSE 0

\* reallocation destroys the moved-from elements: number of payloads their
\* destructors leave behind in the released storage
RelocateLost(vec) ==
  Cardinality({i \in 1..Len(vec) : Abandoned(vec[i].function)})

\* the range-for of get_or_new and get: index of the first entry from i on
\* whose num_args matches, 0 when the loop runs off the end
RECURSIVE FirstMatch(_, _, _)
FirstMatch(vec, i, num_args) ==
  IF i > Len(vec) THEN 0
  ELSE IF vec[i].num_args = num_args THEN i
  ELSE FirstMatch(vec, i + 1, num_args)

\* m with m[name] set to vec (the name is inserted when absent)
MapPut(m, name, vec) ==
  [x \in (DOMAIN m) \cup {name} |-> IF x = name THEN vec ELSE m[x]]

\* a get_or_new that replaces the list by the new entry when none matches
get_or_new_reset(m, name, num_args, realloc) ==
  LET vec == IF name \in DOMAIN m THEN m[name] ELSE << >>
      i == FirstMatch(vec, 1, num_args)
      fresh == << [FunctionData EXCEPT !.num_args = num_args] >>
  IN IF i # 0 THEN [map |-> MapPut(m, name, vec), idx |-> i]
     ELSE [map |-> MapPut(m, name, fresh), idx |-> 1]

\* a get_or_new that appends without searching
get_or_new_append(m, name, num_args, realloc) ==
  LET vec == IF name \in DOMAIN m THEN m[name] ELSE << >>
      moved == IF realloc THEN Relocate(vec) ELSE vec
      grown == Append(moved, [FunctionData EXCEPT !.num_args = num_args])
  IN [map |-> MapPut(m, name, grown), idx |-> Len(grown)]

\* get_or_new(name, num_args): the map after the call and the index of the
\* entry the returned reference designates. realloc says whether
\* emplace_back had to reallocate the vector's storage.
get_or_new(m, name, num_args, realloc) ==
  LET vec == IF name \in DOMAIN m THEN m[name] ELSE << >>
      i == FirstMatch(vec, 1, num_args)
      moved == IF realloc THEN Relocate(vec) ELSE vec
      grown == Append(moved, [FunctionData EXCEPT !.num_args = num_args])
  IN IF i # 0 THEN [map |-> MapPut(m, name, vec), idx |-> i]
     ELSE [map |-> MapPut(m, name, grown), idx |-> Len(grown)]

\* a get that returns the first entry of the name whatever its num_args
get_anyarity(m, name, num_args) ==
  IF name \notin DOMAIN m THEN 0
  ELSE IF Len(m[name]) > 0 THEN 1 ELSE 0

\* get(name, num_args): index of the entry in m[name], 0 for nullptr
get(m, name, num_args) ==
  IF name \notin DOMAIN m THEN 0
  ELSE FirstMatch(m[name], 1, num_args)

\* an add_builtin that replaces the whole entry
add_builtin_fresh(m, name, num_args, op, realloc) ==
  LET r == get_or_new(m, name, num_args, realloc)
  IN [r.map EXCEPT ![name][r.idx] =
        [num_args |-> num_args, op |-> op, function |-> Container_default]]

\* an add_builtin that sets the op only while the entry holds none
add_builtin_keepfirst(m, name, num_args, op, realloc) ==
  LET r == get_or_new(m, name, num_args, realloc)
      cur == r.map[name][r.idx].op
  IN [r.map EXCEPT ![name][r.idx].op = IF cur = "Nop" THEN op ELSE cur]

\* add_builtin(name, num_args, op): the map after the call
add_builtin(m, name, num_args, op, realloc) ==
  LET r == get_or_new(m, name, num_args, realloc)
  IN [r.map EXCEPT ![name][r.idx].op = op]

\* add_callback with the assignment done by a given operator=
add_callback_with(m, name, num_args, c, realloc, byCopy) ==
  LET r == get_or_new(m, name, num_args, realloc)
      old == r.map[name][r.idx].function
  IN [r.map EXCEPT ![name][r.idx].function =
        IF byCopy THEN CopyAssign(old, c) ELSE MoveAssign(old, c)]

\* payloads lost by get_or_new(name, num_args)
get_or_new_lost(m, name, num_args, realloc) ==
  LET vec == IF name \in DOMAIN m THEN m[name] ELSE << >>
  IN IF FirstMatch(vec, 1, num_args) = 0 /\ realloc THEN RelocateLost(vec) ELSE 0

\* payloads lost by add_callback(name, num_args, function)
add_callback_lost(m, name, num_args, c, realloc, byCopy) ==
  LET r == get_or_new(m, name, num_args, realloc)
      old == r.map[name][r.idx].function
  IN get_or_new_lost(m, name, num_args, realloc)
       + AssignLost(old, IF byCopy THEN CopyConstruct(c) ELSE c)

\* find_builtin(name, num_args)
find_builtin(m, name, num_args) ==
  LET ptr == get(m, name, num_args)
  IN IF ptr # 0 THEN m[name][ptr].op ELSE "Nop"

\* find_callback(name, num_args): the returned container
find_callback(m, name, num_args) ==
  LET ptr == get(m, name, num_args)
  IN IF ptr # 0 THEN CopyConstruct(m[name][ptr].function) ELSE Container_default

(* ------------------------------- state --------------------------------- *)
VARIABLES
  m_map,      \* FunctionStorage::m_map: name -> sequence of FunctionData
  lastOp,     \* per key, the op of the most recent add_builtin, or Unregistered
  lastCb,     \* per key, the container made from the callback of the most
              \* recent add_callback, or UnregisteredCb
  lastCall,   \* the most recent add_* call on the registry
  repeated,   \* the most recent add_* call had the arguments of the one before it
  result,     \* the value the most recent find_* returned, held by its caller
  calls,      \* number of add_* calls made
  lost,       \* number of payloads whose storage was reused or released
              \* without their destructor having run
  phase,      \* SpecServe: "setup" while add_* calls are made, "serve" afterwards
  pc,         \* per thread, the position of its lookup
  targ,       \* per thread, the (kind, name, num_args) of its lookup
  tptr,       \* per thread, the iterator / index of get()
  tret,       \* per thread, what its lookup returned
  spc,        \* SpecSteps: position of the operation executed step by step
  sarg,       \* the arguments of that operation
  sidx,       \* its loop position / the entry its reference designates
  stmp,       \* the temporary CallbackContainer of its assignment
  nCopy,      \* entries into operator=(const CallbackContainer&) it made
  nMove,      \* entries into operator=(const CallbackContainer&&) it made
  steps       \* steps it took so far

vars == << m_map, lastOp, lastCb, lastCall, repeated, result, calls, lost,
           phase, pc, targ, tptr, tret,
           spc, sarg, sidx, stmp, nCopy, nMove, steps >>

stepVars == << spc, sarg, sidx, stmp, nCopy, nMove, steps >>

threadVars == << phase, pc, targ, tptr, tret >>

Unregistered == "unregistered"
UnregisteredCb == [type |-> "unregistered", live |-> "none", target |-> NoTarget]
NoCall == [kind |-> "none", name |-> "", num_args |-> 0, relocated |-> FALSE,
           replaced |-> "absent"]
NoResult == [kind |-> "none", value |-> "none"]
NoArg == [kind |-> "none", name |-> "", num_args |-> 0]
NoStepArg == [kind |-> "none", name |-> "", num_args |-> 0, op |-> "Nop",
              c |-> Container_default, byCopy |-> FALSE]

\* the containers a caller can hand to add_callback<CallbackContainer>
CallerContainers ==
  {Container_default}
    \cup {Container_value(f) : f \in ValueFns}
    \cup {Container_streaming(f) : f \in StreamingFns}

\* a std::map constructed empty
Init ==
  /\ m_map = << >>
  /\ lastOp = [k \in Keys |-> Unregistered]
  /\ lastCb = [k \in Keys |-> UnregisteredCb]
  /\ lastCall = NoCall
  /\ repeated = FALSE
  /\ result = NoResult
  /\ calls = 0
  /\ lost = 0
  /\ phase = "setup"
  /\ pc = [t \in Threads |-> "idle"]
  /\ targ = [t \in Threads |-> NoArg]
  /\ tptr = [t \in Threads |-> 0]
  /\ tret = [t \in Threads |-> NoResult]
  /\ spc = "idle"
  /\ sarg = NoStepArg
  /\ sidx = 0
  /\ stmp = Container_default
  /\ nCopy = 0
  /\ nMove = 0
  /\ steps = 0

\* emplace_back runs and has elements to move if it reallocates
Appends(name, num_args) ==
  /\ name \in DOMAIN m_map
  /\ Len(m_map[name]) > 0
  /\ FirstMatch(m_map[name], 1, num_args) = 0

\* whether emplace_back reallocates depends on the vector's capacity, which
\* the implementation chooses: both outcomes are enumerated
ReallocChoices(name, num_args) ==
  IF Appends(name, num_args) THEN BOOLEAN ELSE {FALSE}

\* the call made now has the kind, key and argument of the call before it
\* (the argument of the call before it is the one recorded for its key)
SameAsLast(kind, name, num_args, arg) ==
  /\ lastCall.kind = kind
  /\ lastCall.name = name
  /\ lastCall.num_args = num_args
  /\ CASE kind = "add_builtin" -> lastOp[<<name, num_args>>] = arg
       [] kind = "add_callback" -> lastCb[<<name, num_args>>] = arg

\* what the entry of the key held before an add_* call: its op for
\* add_builtin, the tag of its callable for add_callback, "absent" for no entry
Replaced(kind, name, num_args) ==
  LET ptr == get(m_map, name, num_args)
  IN IF ptr = 0 THEN "absent"
     ELSE IF kind = "add_builtin" THEN m_map[name][ptr].op
     ELSE m_map[name][ptr].function.type

Called(kind, name, num_args, arg, relocated) ==
  /\ lastCall' = [kind |-> kind, name |-> name, num_args |-> num_args,
                  relocated |-> relocated,
                  replaced |-> Replaced(kind, name, num_args)]
  /\ repeated' = SameAsLast(kind, name, num_args, arg)

\* void add_builtin(name, num_args, op)
AddBuiltin(name, num_args, op, realloc) ==
  /\ calls < MaxCalls
  /\ m_map' = add_builtin(m_map, name, num_args, op, realloc)
  /\ lastOp' = [lastOp EXCEPT ![<<name, num_args>>] = op]
  /\ Called("add_builtin", name, num_args, op,
            realloc)
  /\ calls' = calls + 1
  /\ lost' = lost + get_or_new_lost(m_map, name, num_args, realloc)
  /\ UNCHANGED << lastCb, result >>

\* add_callback<T>: data.function = function, with the container the
\* assignment receives and the operator= overload resolution selects
AddCallback(name, num_args, c, realloc, byCopy) ==
  /\ calls < MaxCalls
  /\ m_map' = add_callback_with(m_map, name, num_args, c, realloc, byCopy)
  /\ lastCb' = [lastCb EXCEPT ![<<name, num_args>>] = c]
  /\ Called("add_callback", name, num_args, c,
            realloc)
  /\ calls' = calls + 1
  /\ lost' = lost + add_callback_lost(m_map, name, num_args, c, realloc, byCopy)
  /\ UNCHANGED << lastOp, result >>

\* add_callback<ValueCallbackFunction>: the temporary CallbackContainer(function)
\* is an rvalue, so operator=(const CallbackContainer&&) is selected
AddCallbackValue(name, num_args, f, realloc) ==
  AddCallback(name, num_args, Container_value(f), realloc, FALSE)

\* add_callback<StreamingCallbackFunction>
AddCallbackStreaming(name, num_args, f, realloc) ==
  AddCallback(name, num_args, Container_streaming(f), realloc, FALSE)

\* add_callback<CallbackContainer>: function is a const lvalue, so
\* operator=(const CallbackContainer&) is selected
AddCallbackContainer(name, num_args, c, realloc) ==
  AddCallback(name, num_args, c, realloc, TRUE)

\* a find_builtin that looks the name up with m_map[name]
FindBuiltin_insert(name, num_args) ==
  /\ result' = [kind |-> "builtin", value |-> find_builtin(m_map, name, num_args)]
  /\ m_map' = IF name \in DOMAIN m_map THEN m_map ELSE MapPut(m_map, name, << >>)
  /\ UNCHANGED << lastOp, lastCb, lastCall, repeated, calls, lost >>

\* Bytecode::Op find_builtin(name, num_args) const
FindBuiltin(name, num_args) ==
  /\ result' = [kind |-> "builtin", value |-> find_builtin(m_map, name, num_args)]
  /\ UNCHANGED << m_map, lastOp, lastCb, lastCall, repeated, calls, lost >>

\* what the caller sees in a held lookup result: the value itself, or, for a
\* result that refers into the registry, the callable it refers to
Observed(r, m) ==
  IF r.kind = "callbackref" THEN m[r.value[1]][r.value[2]].function
  ELSE r.value

\* a find_callback that hands out a reference to the stored callable
FindCallback_ref(name, num_args) ==
  /\ result' = IF get(m_map, name, num_args) # 0
                THEN [kind |-> "callbackref",
                      value |-> <<name, get(m_map, name, num_args)>>]
                ELSE [kind |-> "callback", value |-> Container_default]
  /\ UNCHANGED << m_map, lastOp, lastCb, lastCall, repeated, calls, lost >>

\* CallbackContainer find_callback(name, num_args) const
FindCallback(name, num_args) ==
  /\ result' = [kind |-> "callback", value |-> find_callback(m_map, name, num_args)]
  /\ UNCHANGED << m_map, lastOp, lastCb, lastCall, repeated, calls, lost >>

Next ==
  \/ \E k \in RegKeys, op \in Ops :
     \E realloc \in ReallocChoices(k[1], k[2]) :
       AddBuiltin(k[1], k[2], op, realloc) /\ UNCHANGED << threadVars, stepVars >>
  \/ \E k \in RegKeys, f \in ValueFns :
     \E realloc \in ReallocChoices(k[1], k[2]) :
       AddCallbackValue(k[1], k[2], f, realloc) /\ UNCHANGED << threadVars, stepVars >>
  \/ \E k \in RegKeys, f \in StreamingFns :
     \E realloc \in ReallocChoices(k[1], k[2]) :
       AddCallbackStreaming(k[1], k[2], f, realloc) /\ UNCHANGED << threadVars, stepVars >>
  \/ \E k \in RegKeys, c \in CallerContainers :
     \E realloc \in ReallocChoices(k[1], k[2]) :
       AddCallbackContainer(k[1], k[2], c, realloc) /\ UNCHANGED << threadVars, stepVars >>
  \/ \E name \in Names, num_args \in Arities :
       FindBuiltin(name, num_args) /\ UNCHANGED << threadVars, stepVars >>
  \/ \E name \in Names, num_args \in Arities :
       FindCallback(name, num_args) /\ UNCHANGED << threadVars, stepVars >>

Spec == Init /\ [][Next]_vars

(* ----------------------- initialization, then serve -------------------- *)
\* The registry is populated by one thread; once the last add_* call has
\* returned, threads issue find_* calls concurrently. A lookup is a sequence
\* of reads of the shared registry, one per step.

\* the setup phase is over: every add_* call has completed
EndSetup ==
  /\ phase = "setup"
  /\ phase' = "serve"
  /\ UNCHANGED << m_map, lastOp, lastCb, lastCall, repeated, result, calls, lost, stepVars,
                  pc, targ, tptr, tret >>

\* a get that looks the name up with m_map[name]
T_Call_insert(t, kind, name, num_args) ==
  /\ phase = "serve"
  /\ pc[t] = "idle"
  /\ targ' = [targ EXCEPT ![t] = [kind |-> kind, name |-> name, num_args |-> num_args]]
  /\ m_map' = IF name \in DOMAIN m_map THEN m_map ELSE MapPut(m_map, name, << >>)
  /\ tptr' = [tptr EXCEPT ![t] = 1]
  /\ pc' = [pc EXCEPT ![t] = "loop"]
  /\ UNCHANGED << lastOp, lastCb, lastCall, repeated, result, calls, lost, stepVars, phase, tret >>

\* thread t calls find_builtin or find_callback, which starts get:
\* auto it = m_map.find(name); if (it == m_map.end()) return nullptr;
T_Call(t, kind, name, num_args) ==
  /\ phase = "serve"
  /\ pc[t] = "idle"
  /\ targ' = [targ EXCEPT ![t] = [kind |-> kind, name |-> name, num_args |-> num_args]]
  /\ IF name \in DOMAIN m_map
     THEN tptr' = [tptr EXCEPT ![t] = 1] /\ pc' = [pc EXCEPT ![t] = "loop"]
     ELSE tptr' = [tptr EXCEPT ![t] = 0] /\ pc' = [pc EXCEPT ![t] = "ret"]
  /\ UNCHANGED << m_map, lastOp, lastCb, lastCall, repeated, result, calls, lost, stepVars,
                  phase, tret >>

\* get: one iteration of for (auto &&i: it->second)
T_Loop(t) ==
  /\ pc[t] = "loop"
  /\ LET vec == m_map[targ[t].name]
     IN IF tptr[t] > Len(vec)
        THEN tptr' = [tptr EXCEPT ![t] = 0] /\ pc' = [pc EXCEPT ![t] = "ret"]
        ELSE IF vec[tptr[t]].num_args = targ[t].num_args
        THEN tptr' = tptr /\ pc' = [pc EXCEPT ![t] = "ret"]
        ELSE tptr' = [tptr EXCEPT ![t] = tptr[t] + 1] /\ pc' = pc
  /\ UNCHANGED << m_map, lastOp, lastCb, lastCall, repeated, result, calls, lost, stepVars,
                  phase, targ, tret >>

\* find_builtin / find_callback: if (auto ptr = get(...)) return ptr->op (a
\* copy of ptr->function); otherwise the sentinel
T_Return(t) ==
  /\ pc[t] = "ret"
  /\ tret' = [tret EXCEPT ![t] =
       IF targ[t].kind = "find_builtin"
       THEN [kind |-> "builtin",
             value |-> IF tptr[t] # 0 THEN m_map[targ[t].name][tptr[t]].op
                       ELSE "Nop"]
       ELSE [kind |-> "callback",
             value |-> IF tptr[t] # 0
                       THEN CopyConstruct(m_map[targ[t].name][tptr[t]].function)
                       ELSE Container_default]]
  /\ pc' = [pc EXCEPT ![t] = "done"]
  /\ UNCHANGED << m_map, lastOp, lastCb, lastCall, repeated, result, calls, lost, stepVars,
                  phase, targ, tptr >>

\* the caller of thread t consumes the result; the thread may look up again
T_Done(t) ==
  /\ pc[t] = "done"
  /\ pc' = [pc EXCEPT ![t] = "idle"]
  /\ targ' = [targ EXCEPT ![t] = NoArg]
  /\ tptr' = [tptr EXCEPT ![t] = 0]
  /\ tret' = [tret EXCEPT ![t] = NoResult]
  /\ UNCHANGED << m_map, lastOp, lastCb, lastCall, repeated, result, calls, lost, stepVars, phase >>

SetupStep ==
  /\ phase = "setup"
  /\ calls < MaxSetup
  /\ UNCHANGED << threadVars, stepVars >>
  /\ \/ \E k \in RegKeys, op \in Ops :
        \E realloc \in ReallocChoices(k[1], k[2]) :
          AddBuiltin(k[1], k[2], op, realloc)
     \/ \E k \in RegKeys, f \in ValueFns :
        \E realloc \in ReallocChoices(k[1], k[2]) :
          AddCallbackValue(k[1], k[2], f, realloc)
     \/ \E k \in RegKeys, f \in StreamingFns :
        \E realloc \in ReallocChoices(k[1], k[2]) :
          AddCallbackStreaming(k[1], k[2], f, realloc)
     \/ \E k \in RegKeys, c \in CallerContainers :
        \E realloc \in ReallocChoices(k[1], k[2]) :
          AddCallbackContainer(k[1], k[2], c, realloc)

NextServe ==
  \/ SetupStep
  \/ EndSetup
  \/ \E t \in Threads, kind \in {"find_builtin", "find_callback"},
        name \in Names, num_args \in Arities :
       T_Call(t, kind, name, num_args)
  \/ \E t \in Threads : T_Loop(t)
  \/ \E t \in Threads : T_Return(t)
  \/ \E t \in Threads : T_Done(t)

SpecServe == Init /\ [][NextServe]_vars

(* -------------------------- one step at a time -------------------------- *)
\* The operations of the registry executed statement by statement by their
\* single caller: the map access, each iteration of the range-for, the
\* emplace_back, and each operator= the assignment in add_callback enters.

sharedGhost == << lastOp, lastCb, lastCall, repeated >>

IsAdd(arg) == arg.kind \in {"add_builtin", "add_callback"}

\* an overload resolution without the const CallbackContainer&& overload
SelectAssign_copyonly(category) == "copyassign"

\* overload resolution of `x = y` between operator=(const CallbackContainer&)
\* and operator=(const CallbackContainer&&): an rvalue binds to the latter
SelectAssign(category) ==
  IF category = "rvalue" THEN "moveassign" ELSE "copyassign"

\* the caller enters add_builtin, add_callback, find_builtin or find_callback
S_Call(arg) ==
  /\ spc = "idle"
  /\ IsAdd(arg) => calls < MaxStepCalls
  /\ sarg' = arg
  /\ spc' = "map"
  /\ sidx' = 0
  /\ stmp' = Container_default
  /\ nCopy' = 0
  /\ nMove' = 0
  /\ steps' = 1
  /\ calls' = IF IsAdd(arg) THEN calls + 1 ELSE calls
  /\ UNCHANGED << m_map, sharedGhost, result, lost, threadVars >>

\* get_or_new: auto &vec = m_map[name];  get: auto it = m_map.find(name)
S_Map ==
  /\ spc = "map"
  /\ steps' = steps + 1
  /\ IF IsAdd(sarg)
     THEN /\ m_map' = IF sarg.name \in DOMAIN m_map THEN m_map
                      ELSE MapPut(m_map, sarg.name, << >>)
          /\ sidx' = 1
          /\ spc' = "loop"
     ELSE /\ m_map' = m_map
          /\ IF sarg.name \in DOMAIN m_map
             THEN sidx' = 1 /\ spc' = "loop"
             ELSE sidx' = 0 /\ spc' = "ret"
  /\ UNCHANGED << sharedGhost, result, calls, lost, threadVars,
                  sarg, stmp, nCopy, nMove >>

\* one iteration of the range-for over the entries of the name
S_Loop ==
  /\ spc = "loop"
  /\ steps' = steps + 1
  /\ LET vec == m_map[sarg.name]
     IN IF sidx > Len(vec)
        THEN IF IsAdd(sarg)
             THEN sidx' = sidx /\ spc' = "emplace"
             ELSE sidx' = 0 /\ spc' = "ret"
        ELSE IF vec[sidx].num_args = sarg.num_args
        THEN sidx' = sidx /\ spc' = IF IsAdd(sarg) THEN "store" ELSE "ret"
        ELSE sidx' = sidx + 1 /\ spc' = spc
  /\ UNCHANGED << m_map, sharedGhost, result, calls, lost, threadVars,
                  sarg, stmp, nCopy, nMove >>

\* get_or_new: vec.emplace_back(); vec.back().num_args = num_args;
S_Emplace(realloc) ==
  /\ spc = "emplace"
  /\ realloc => Len(m_map[sarg.name]) > 0
  /\ steps' = steps + 1
  /\ LET vec == m_map[sarg.name]
         moved == IF realloc THEN Relocate(vec) ELSE vec
         grown == Append(moved, [FunctionData EXCEPT !.num_args = sarg.num_args])
     IN /\ m_map' = [m_map EXCEPT ![sarg.name] = grown]
        /\ sidx' = Len(grown)
        /\ lost' = lost + (IF realloc THEN RelocateLost(vec) ELSE 0)
  /\ spc' = "store"
  /\ UNCHANGED << sharedGhost, result, calls, threadVars,
                  sarg, stmp, nCopy, nMove >>

\* add_builtin: data.op = op;  add_callback: data.function = function; enters
\* the operator= that overload resolution selects for the right-hand side
S_Store ==
  /\ spc = "store"
  /\ steps' = steps + 1
  /\ IF sarg.kind = "add_builtin"
     THEN /\ m_map' = [m_map EXCEPT ![sarg.name][sidx].op = sarg.op]
          /\ spc' = "idle"
          /\ stmp' = stmp
     ELSE /\ m_map' = m_map
          /\ spc' = SelectAssign(IF sarg.byCopy THEN "lvalue" ELSE "rvalue")
          /\ stmp' = sarg.c
  /\ UNCHANGED << sharedGhost, result, calls, lost, threadVars,
                  sarg, sidx, nCopy, nMove >>

\* operator=(const CallbackContainer& other): return *this = CallbackContainer(other);
S_CopyAssign ==
  /\ spc = "copyassign"
  /\ nCopy < MaxDepth
  /\ steps' = steps + 1
  /\ nCopy' = nCopy + 1
  /\ stmp' = CopyConstruct(stmp)
  /\ spc' = SelectAssign("rvalue")
  /\ UNCHANGED << m_map, sharedGhost, result, calls, lost, threadVars,
                  sarg, sidx, nMove >>

\* operator=(const CallbackContainer&& other): the tag and the payload are
\* taken; the assignment and add_callback return
S_MoveAssign ==
  /\ spc = "moveassign"
  /\ steps' = steps + 1
  /\ nMove' = nMove + 1
  /\ LET old == m_map[sarg.name][sidx].function
     IN /\ m_map' = [m_map EXCEPT ![sarg.name][sidx].function = MoveAssign(old, stmp)]
        /\ lost' = lost + AssignLost(old, stmp)
  /\ spc' = "idle"
  /\ UNCHANGED << sharedGhost, result, calls, threadVars,
                  sarg, sidx, stmp, nCopy >>

\* find_builtin / find_callback return ptr->op, a copy of ptr->function, or
\* the sentinel
S_Return ==
  /\ spc = "ret"
  /\ steps' = steps + 1
  /\ result' =
       IF sarg.kind = "find_builtin"
       THEN [kind |-> "builtin",
             value |-> IF sidx # 0 THEN m_map[sarg.name][sidx].op ELSE "Nop"]
       ELSE [kind |-> "callback",
             value |-> IF sidx # 0
                       THEN CopyConstruct(m_map[sarg.name][sidx].function)
                       ELSE Container_default]
  /\ spc' = "idle"
  /\ UNCHANGED << m_map, sharedGhost, calls, lost, threadVars,
                  sarg, sidx, stmp, nCopy, nMove >>

\* the calls enumerated
StepArgs ==
  {[kind |-> "add_builtin", name |-> k[1], num_args |-> k[2], op |-> op,
    c |-> Container_default, byCopy |-> FALSE] : k \in RegKeys, op \in Ops}
  \cup
  {[kind |-> "add_callback", name |-> k[1], num_args |-> k[2], op |-> "Nop",
    c |-> c, byCopy |-> FALSE] :
      k \in RegKeys, c \in CallerContainers \ {Container_default}}
  \cup
  {[kind |-> "add_callback", name |-> k[1], num_args |-> k[2], op |-> "Nop",
    c |-> c, byCopy |-> TRUE] : k \in RegKeys, c \in CallerContainers}
  \cup
  {[kind |-> kind, name |-> k[1], num_args |-> k[2], op |-> "Nop",
    c |-> Container_default, byCopy |-> FALSE] :
      k \in Keys, kind \in {"find_builtin", "find_callback"}}

NextSteps ==
  \/ \E arg \in StepArgs : S_Call(arg)
  \/ S_Map
  \/ S_Loop
  \/ \E realloc \in BOOLEAN : S_Emplace(realloc)
  \/ S_Store
  \/ S_CopyAssign
  \/ S_MoveAssign
  \/ S_Return

\* the caller's thread keeps running: a step that can be taken is taken
SpecSteps == Init /\ [][NextSteps]_vars /\ WF_vars(NextSteps)

(* ------------------------------- claims -------------------------------- *)
LastKey == <<lastCall.name, lastCall.num_args>>

\* number of entries held by the registry
RECURSIVE SumLen(_, _)
SumLen(m, S) ==
  IF S = {} THEN 0
  ELSE LET x == CHOOSE x \in S : TRUE IN Len(m[x]) + SumLen(m, S \ {x})

EntryCount == SumLen(m_map, DOMAIN m_map)

\* C1: for every key that received an add_builtin, find_builtin returns the
\* op of the most recent add_builtin for exactly that key.
C1_FindBuiltinLatest ==
  \A k \in Keys :
    lastOp[k] # Unregistered => find_builtin(m_map, k[1], k[2]) = lastOp[k]

\* an add_builtin just overwrote a different op at its key
C1_Witness ==
  /\ lastCall.kind = "add_builtin"
  /\ lastCall.replaced = "Upper"
  /\ lastOp[LastKey] = "Lower"
  /\ find_builtin(m_map, lastCall.name, lastCall.num_args) = "Lower"

\* C2: for every key that received an add_callback, find_callback returns a
\* container with the tag and payload of the callback of the most recent
\* add_callback for that key, also when the shape changed.
C2_FindCallbackLatest ==
  \A k \in Keys :
    lastCb[k] # UnregisteredCb =>
      LET c == find_callback(m_map, k[1], k[2])
      IN /\ c.type = lastCb[k].type
         /\ c.live = lastCb[k].live
         /\ c.target = lastCb[k].target

\* an add_callback just replaced a value-returning callback by a streaming one
C2_Witness ==
  /\ lastCall.kind = "add_callback"
  /\ lastCall.replaced = "VALUE"
  /\ lastCb[LastKey].type = "STREAMING"
  /\ find_callback(m_map, lastCall.name, lastCall.num_args).type = "STREAMING"

\* C3: a lookup for a key that was never registered returns the sentinel
\* (Nop, an Empty container), whether the name is absent or present only
\* under other arities.
C3_UnregisteredSentinel ==
  \A k \in Keys :
    (lastOp[k] = Unregistered /\ lastCb[k] = UnregisteredCb) =>
      /\ find_builtin(m_map, k[1], k[2]) = "Nop"
      /\ find_callback(m_map, k[1], k[2]) = Container_default

\* "upper" is registered under arity 1 only, "join" is absent, and a lookup
\* returned Nop although no entry holds Nop
C3_Witness ==
  /\ lastOp[<<"upper", 1>>] = "Upper"
  /\ \A k \in Keys \ {<<"upper", 1>>} :
       lastOp[k] = Unregistered /\ lastCb[k] = UnregisteredCb
  /\ lastCb[<<"upper", 1>>] = UnregisteredCb
  /\ "upper" \in DOMAIN m_map
  /\ "join" \notin DOMAIN m_map
  /\ result = [kind |-> "builtin", value |-> "Nop"]

\* C4: an add_* call on one key leaves the lookups of every other key
\* unchanged, also when it appends to the list of the other key's entry and
\* the list's storage is reallocated.
C4_OtherKeysUnchanged ==
  [][calls' = calls + 1 =>
       \A k2 \in Keys \ {<<lastCall'.name, lastCall'.num_args>>} :
         /\ find_builtin(m_map', k2[1], k2[2]) = find_builtin(m_map, k2[1], k2[2])
         /\ find_callback(m_map', k2[1], k2[2]) = find_callback(m_map, k2[1], k2[2])
    ]_vars

\* the last add_* call reallocated a list that holds another key's callback
C4_Witness ==
  /\ lastCall.kind \in {"add_builtin", "add_callback"}
  /\ lastCall.relocated
  /\ \E i \in 1..Len(m_map[lastCall.name]) :
       /\ m_map[lastCall.name][i].num_args # lastCall.num_args
       /\ m_map[lastCall.name][i].function.type = "VALUE"
       /\ m_map[lastCall.name][i].op = "Upper"

\* C5: add_callback leaves the op find_builtin returns for its key unchanged,
\* add_builtin leaves the container find_callback returns for its key
\* unchanged, and after both kinds of registration on one key each lookup
\* returns its own most recently registered datum.
C5_FieldsIndependent ==
  /\ [][calls' = calls + 1 =>
          LET name == lastCall'.name
              num_args == lastCall'.num_args
          IN /\ lastCall'.kind = "add_callback" =>
                  find_builtin(m_map', name, num_args)
                    = find_builtin(m_map, name, num_args)
             /\ lastCall'.kind = "add_builtin" =>
                  find_callback(m_map', name, num_args)
                    = find_callback(m_map, name, num_args)
       ]_vars
  /\ [](\A k \in Keys :
          (lastOp[k] # Unregistered /\ lastCb[k] # UnregisteredCb) =>
            /\ find_builtin(m_map, k[1], k[2]) = lastOp[k]
            /\ find_callback(m_map, k[1], k[2]) = lastCb[k])

\* an add_builtin was made on a key that already held a callback
C5_Witness ==
  /\ lastCall.kind = "add_builtin"
  /\ lastCb[LastKey] # UnregisteredCb
  /\ lastCb[LastKey].type = "STREAMING"
  /\ lastOp[LastKey] = "Upper"

\* C6: a key registered only through add_builtin yields an Empty container
\* from find_callback, a key registered only through add_callback yields Nop
\* from find_builtin.
C6_NewEntryDefaults ==
  \A k \in Keys :
    /\ (lastOp[k] # Unregistered /\ lastCb[k] = UnregisteredCb) =>
         find_callback(m_map, k[1], k[2]) = Container_default
    /\ (lastCb[k] # UnregisteredCb /\ lastOp[k] = Unregistered) =>
         find_builtin(m_map, k[1], k[2]) = "Nop"

\* one key holds only a builtin, another only a callback
C6_Witness ==
  \E k1, k2 \in Keys :
    /\ lastOp[k1] = "Upper" /\ lastCb[k1] = UnregisteredCb
    /\ lastOp[k2] = Unregistered /\ lastCb[k2] # UnregisteredCb
    /\ lastCb[k2].type = "VALUE"

\* C7: from every reachable registry state, add_builtin called twice in a row
\* with identical arguments leaves the registry as calling it once does.
C7_AddBuiltinIdempotent ==
  \A k \in Keys, op \in Ops, r1 \in BOOLEAN, r2 \in BOOLEAN :
    LET once == add_builtin(m_map, k[1], k[2], op, r1)
    IN add_builtin(once, k[1], k[2], op, r2) = once

\* add_builtin was just called a second time with the arguments of the call
\* before it, on a registry holding other entries
C7_Witness ==
  /\ lastCall.kind = "add_builtin"
  /\ repeated
  /\ EntryCount = 2

\* C8: in every reachable state the tag of every container agrees with the
\* payload live in its slot.
TagAgrees(c) ==
  /\ c.type = "VALUE" <=> c.live = "value"
  /\ c.type = "STREAMING" <=> c.live = "streaming"
  /\ c.type = "_" <=> c.live = "none"

C8_TagAgreesWithPayload ==
  /\ \A n \in DOMAIN m_map : \A i \in 1..Len(m_map[n]) :
       TagAgrees(m_map[n][i].function)
  /\ result.kind = "callback" => TagAgrees(result.value)

\* C9: a container returned by find_callback is not changed by any later
\* add_* call, and the lookup leaves the registry unchanged.
C9_ReturnedCopyIndependent ==
  [][/\ (calls' = calls + 1 /\ result.kind \in {"callback", "callbackref"}) =>
          Observed(result', m_map') = Observed(result, m_map)
     /\ calls' = calls => m_map' = m_map
    ]_vars

\* a caller holds a returned value-returning container that no key of the
\* registry yields any more: its key was registered again after the lookup
C9_Witness ==
  /\ result.kind = "callback"
  /\ result.value.type = "VALUE"
  /\ lastCall.kind = "add_callback"
  /\ lastCall.replaced = "VALUE"
  /\ \A k \in Keys : find_callback(m_map, k[1], k[2]) # result.value

\* what a lookup returns when it runs alone on registry m
Sequential(m, arg) ==
  IF arg.kind = "find_builtin"
  THEN [kind |-> "builtin", value |-> find_builtin(m, arg.name, arg.num_args)]
  ELSE [kind |-> "callback", value |-> find_callback(m, arg.name, arg.num_args)]

\* C10: once every add_* call has completed, no step of any interleaving of
\* lookups by several threads writes the registry, and each lookup returns
\* what it returns when the lookups run one after another.
C10_ConcurrentLookupsSafe ==
  [][phase = "serve" =>
       /\ m_map' = m_map
       /\ \A t \in Threads :
            (pc[t] = "ret" /\ pc'[t] = "done") =>
              tret'[t] = Sequential(m_map, targ[t])
    ]_vars

\* one thread has returned a stored callback while another is inside the
\* traversal of the same name's list
C10_Witness ==
  /\ phase = "serve"
  /\ pc[1] = "done" /\ pc[2] = "loop"
  /\ targ[1].name = targ[2].name
  /\ tptr[2] = 2
  /\ tret[1].kind = "callback"
  /\ tret[1].value.type = "VALUE"

\* the keys that received an add_builtin or an add_callback
Registered ==
  {k \in Keys : lastOp[k] # Unregistered \/ lastCb[k] # UnregisteredCb}

\* registry m holds an entry for key k
HasEntry(m, k) == k[1] \in DOMAIN m /\ FirstMatch(m[k[1]], 1, k[2]) # 0

\* C11: after add_callback with a value-returning callback find_callback
\* returns a container with tag VALUE, after one with a streaming callback a
\* container with tag STREAMING, and the boolean test of a container is true
\* exactly when its tag is not Empty.
C11_ShapeFromCallback ==
  /\ \A k \in Keys :
       LET c == find_callback(m_map, k[1], k[2])
       IN /\ lastCb[k].target \in ValueFns => c.type = "VALUE" /\ IsSet(c)
          /\ lastCb[k].target \in StreamingFns => c.type = "STREAMING" /\ IsSet(c)
          /\ IsSet(c) <=> c.type # "_"
  /\ \A n \in DOMAIN m_map : \A i \in 1..Len(m_map[n]) :
       IsSet(m_map[n][i].function) <=> m_map[n][i].function.type # "_"
  /\ result.kind = "callback" => (IsSet(result.value) <=> result.value.type # "_")

\* a streaming callback is registered under ("join", 2) only, a lookup
\* returned it, and another key holds a value-returning callback
C11_Witness ==
  /\ lastCb[<<"join", 2>>].type = "STREAMING"
  /\ lastOp[<<"join", 2>>] = Unregistered
  /\ find_builtin(m_map, "join", 2) = "Nop"
  /\ result.kind = "callback"
  /\ result.value.type = "STREAMING"
  /\ IsSet(result.value)
  /\ \E k \in Keys : lastCb[k].target \in ValueFns

\* C12: no name's list holds two entries with the same num_args, and the
\* number of entries under a name is the number of distinct num_args ever
\* registered under it.
C12_EntriesUniquePerArity ==
  /\ \A n \in DOMAIN m_map :
       /\ \A i, j \in 1..Len(m_map[n]) :
            m_map[n][i].num_args = m_map[n][j].num_args => i = j
       /\ Len(m_map[n]) = Cardinality({k \in Registered : k[1] = n})
  /\ \A k \in Registered : k[1] \in DOMAIN m_map

\* a name holds two entries after three registrations: one of them was
\* registered twice
C12_Witness ==
  /\ calls = 3
  /\ "upper" \in DOMAIN m_map
  /\ Len(m_map["upper"]) = 2
  /\ "join" \notin DOMAIN m_map

\* C14: the first registration of a key creates exactly one entry, a later
\* one changes no entry count, and no step removes an entry or a name.
C14_KeysOnlyGrow ==
  [][/\ \A k \in Keys : HasEntry(m_map, k) => HasEntry(m_map', k)
     /\ DOMAIN m_map \subseteq DOMAIN m_map'
     /\ \A n \in DOMAIN m_map : Len(m_map'[n]) >= Len(m_map[n])
     /\ calls' = calls + 1 =>
          LET k == <<lastCall'.name, lastCall'.num_args>>
          IN /\ HasEntry(m_map', k)
             /\ SumLen(m_map', DOMAIN m_map')
                  = EntryCount + (IF HasEntry(m_map, k) THEN 0 ELSE 1)
    ]_vars

\* the last add_* call created an entry in a list that already held one, and
\* the call before it found its entry
C14_Witness ==
  /\ calls = 3
  /\ lastCall.replaced = "absent"
  /\ Len(m_map[lastCall.name]) = 2
  /\ EntryCount = 2

\* C15: find_builtin and find_callback leave the registry unchanged: no name
\* is added to the map, no entry to a list, and no entry is changed.
C15_LookupsLeaveRegistry ==
  [][calls' = calls =>
       /\ DOMAIN m_map' = DOMAIN m_map
       /\ \A n \in DOMAIN m_map :
            /\ Len(m_map'[n]) = Len(m_map[n])
            /\ \A i \in 1..Len(m_map[n]) : m_map'[n][i] = m_map[n][i]
    ]_vars

\* a lookup returned the sentinel although every entry holds a builtin: it
\* was made for a key without entry, and "join" is still not in the map
C15_Witness ==
  /\ result = [kind |-> "builtin", value |-> "Nop"]
  /\ "upper" \in DOMAIN m_map
  /\ Len(m_map["upper"]) = 2
  /\ \A i \in 1..2 : m_map["upper"][i].op # "Nop"
  /\ "join" \notin DOMAIN m_map

\* C13: an assignment destroys the payload its target holds before it
\* constructs the new one, so no payload is ever overwritten or released
\* without its destructor, and none stays live in a container whose tag
\* does not designate it (the destructor of the registry destroys them all).
C13_PayloadsDestroyedOnce ==
  /\ lost = 0
  /\ \A n \in DOMAIN m_map : \A i \in 1..Len(m_map[n]) :
       ~Abandoned(m_map[n][i].function)

\* C16: move construction gives the destination the tag and payload the
\* source had, and leaves the source with a tag that describes the payload
\* live in its slot, so that its destructor destroys exactly that payload.
\* Stated of the move constructions a reallocation performs.
C16_MoveKeepsBothValid ==
  [][(calls' = calls + 1 /\ lastCall'.relocated) =>
       \A i \in 1..Len(m_map[lastCall'.name]) :
         LET src == m_map[lastCall'.name][i].function
             dst == m_map'[lastCall'.name][i].function
         IN /\ dst.type = src.type
            /\ dst.live = src.live
            /\ dst.target = src.target
            /\ \A after \in MoveConstruct_source(src) :
                 /\ TagAgrees(after)
                 /\ Destroyed(after) = after.live
    ]_vars

\* the same, of the sources whose tag designates their live payload
WellFormedMoveKeepsBothValid ==
  [][(calls' = calls + 1 /\ lastCall'.relocated) =>
       \A i \in 1..Len(m_map[lastCall'.name]) :
         LET src == m_map[lastCall'.name][i].function
             dst == m_map'[lastCall'.name][i].function
         IN ~Abandoned(src) =>
            /\ dst.type = src.type
            /\ dst.live = src.live
            /\ dst.target = src.target
            /\ \A after \in MoveConstruct_source(src) :
                 /\ TagAgrees(after)
                 /\ Destroyed(after) = after.live
    ]_vars

\* C17: every operation terminates after a bounded number of steps: add_*
\* and find_* traverse the name's list once, and a copy assignment runs the
\* move assignment once and does not enter copy assignment again.
C17_OperationsTerminate ==
  /\ [](/\ nCopy <= 1
        /\ nMove <= 1
        /\ spc \in {"loop", "emplace", "store", "copyassign", "moveassign"} =>
             /\ sidx <= Len(m_map[sarg.name]) + 1
             /\ steps <= sidx + 5
        /\ (spc = "idle" /\ sarg.kind = "add_callback") =>
             /\ nMove = 1
             /\ nCopy = (IF sarg.byCopy THEN 1 ELSE 0)
        /\ (spc = "idle" /\ sarg.kind # "none") =>
             steps <= (IF sarg.name \in DOMAIN m_map
                       THEN Len(m_map[sarg.name]) ELSE 0) + 6)
  /\ (spc # "idle") ~> (spc = "idle")

\* an add_callback<CallbackContainer> has returned after a copy assignment
\* that overwrote a callable in a list of two entries
C17_Witness ==
  /\ spc = "idle"
  /\ sarg.kind = "add_callback"
  /\ sarg.byCopy
  /\ nCopy = 1 /\ nMove = 1
  /\ Len(m_map[sarg.name]) = 2
  /\ sidx = 2
  /\ m_map[sarg.name][sidx].function.type = "STREAMING"

====
